---- MODULE Spec2Model ----
(***************************************************************************)
(* A model of spel (crustymonkey/spel): the tokenizer, the dictionary      *)
(* loader, the ranker with its top-N display loops and the file checker,   *)
(* in the two variants the repository carries (src/util.rs, src/main.rs).  *)
(*                                                                         *)
(* A Rust String is a sequence of characters, each character a one-letter  *)
(* TLA+ string; a Vec is a sequence.                                       *)
(***************************************************************************)
EXTENDS Integers, Sequences, FiniteSets, TLC

VARIABLES
    line,       \* the &str handed to tokenize / strip_apost
    tok_op,     \* which function has been applied to line ("none" at first)
    tok_ret,    \* what that function returned
    fbytes,     \* the byte blob handed to get_words
    gw_done,    \* get_words has returned
    gw_ret,     \* what get_words returned
    word_list,  \* the query words (args.word; word_list of spell_check_words)
    words,      \* the dictionary, in source order
    top,        \* the requested number of suggestions
    debug,      \* spell_check_words' debug flag
    rk_op,      \* which ranker entry point has run ("none" at first)
    query,      \* the word find_word was last called with
    matches,    \* what find_word last returned (Panic if it panicked)
    printed,    \* the lines written to stdout
    panicked,   \* the run ended in a panic
    files,      \* the paths handed to check_files, in the caller's order
    fs,         \* the file system: per path, NoFile or a File with its lines
    wset,       \* the word set (words of check_files)
    ign_list,   \* the ignore set
    variant,    \* whose check_files runs: "util" or "main"
    fidx,       \* position of check_files' for loop in files (1-based)
    stdout,     \* the reports printed so far
    stderr,     \* the warnings logged so far
    to_ign,     \* the --ignore option handed to get_ignore_list (Option<String>)
    ign_file,   \* what the file system holds at the ignore file's path
    ig_done,    \* get_ignore_list has returned
    ig_ret      \* what get_ignore_list returned

tok_vars == <<line, tok_op, tok_ret>>

gw_vars == <<fbytes, gw_done, gw_ret>>

rk_in == <<word_list, words, top, debug>>

rk_vars == <<word_list, words, top, debug, rk_op, query, matches, printed, panicked>>

cf_in == <<files, fs, wset, ign_list, variant>>

cf_vars == <<files, fs, wset, ign_list, variant, fidx, stdout, stderr>>

ig_vars == <<to_ign, ign_file, ig_done, ig_ret>>

vars == <<line, tok_op, tok_ret, fbytes, gw_done, gw_ret,
          word_list, words, top, debug, rk_op, query, matches, printed, panicked,
          files, fs, wset, ign_list, variant, fidx, stdout, stderr,
          to_ign, ign_file, ig_done, ig_ret>>

(***************************************************************************)
(* Bounds                                                                  *)
(***************************************************************************)
MaxLine == 4

MaxBytes == 4

MaxDict == 3

MaxQueries == 2

MaxTop == 4

MaxFiles == 2

MaxLines == 2

MaxIgnLen == 4

(***************************************************************************)
(* Characters (std::char)                                                  *)
(***************************************************************************)
UpperSeq == <<"A","B","C","D","E","F","G","H","I","J","K","L","M",
              "N","O","P","Q","R","S","T","U","V","W","X","Y","Z">>

LowerSeq == <<"a","b","c","d","e","f","g","h","i","j","k","l","m",
              "n","o","p","q","r","s","t","u","v","w","x","y","z">>

DigitSeq == <<"0","1","2","3","4","5","6","7","8","9">>

Range(s) == {s[i] : i \in 1..Len(s)}

is_ascii_alphabetic(c) == c \in Range(UpperSeq) \cup Range(LowerSeq)

is_ascii_alphanumeric(c) == is_ascii_alphabetic(c) \/ c \in Range(DigitSeq)

to_ascii_lowercase(c) ==
    IF c \in Range(UpperSeq)
    THEN LowerSeq[CHOOSE i \in 1..Len(UpperSeq) : UpperSeq[i] = c]
    ELSE c

\* The characters input lines are drawn from: two lower-case letters, an
\* upper-case letter, a digit, the two in-word marks, and three boundary
\* characters (whitespace, punctuation, a non-ASCII letter).
LineChars == {"a", "s", "S", "1", "-", "'", " ", ":", "é"}

RECURSIVE SeqsUpTo(_, _)
SeqsUpTo(S, n) ==
    IF n = 0 THEN {<<>>}
    ELSE LET shorter == SeqsUpTo(S, n - 1)
         IN  shorter \cup {Append(s, c) : s \in {t \in shorter : Len(t) = n - 1}, c \in S}

(***************************************************************************)
(* util.rs: check_token, strip_apost, tokenize                             *)
(***************************************************************************)
check_token(token) ==
    IF Len(token) = 0 THEN FALSE
    ELSE \E i \in 1..Len(token) : is_ascii_alphabetic(token[i])

ends_with(s, suffix) ==
    /\ Len(s) >= Len(suffix)
    /\ SubSeq(s, Len(s) - Len(suffix) + 1, Len(s)) = suffix

strip_suffix(s, suffix) == SubSeq(s, 1, Len(s) - Len(suffix))

\* A plausible slip: the trailing-apostrophe rule left out.
strip_apost_only_s(word) ==
    IF ends_with(word, <<"'", "s">>) THEN strip_suffix(word, <<"'", "s">>) ELSE word

strip_apost(word) ==
    LET ret1 == IF ends_with(word, <<"'", "s">>)
                THEN strip_suffix(word, <<"'", "s">>)
                ELSE word
    IN  IF ends_with(ret1, <<"'">>)
        THEN strip_suffix(ret1, <<"'">>)
        ELSE ret1

\* The for loop of tokenize: the state after the characters i..Len(l).
RECURSIVE tokenize_loop(_, _, _, _)
tokenize_loop(l, i, tmp, ret) ==
    IF i > Len(l) THEN [tmp |-> tmp, ret |-> ret]
    ELSE LET c == l[i]
         IN  IF is_ascii_alphanumeric(c) \/ c = "-" \/ c = "'"
             THEN IF c = "-" \/ c = "'"
                  THEN tokenize_loop(l, i + 1, Append(tmp, c), ret)
                  ELSE tokenize_loop(l, i + 1, Append(tmp, to_ascii_lowercase(c)), ret)
             ELSE tokenize_loop(l, i + 1, <<>>,
                      IF check_token(tmp) THEN Append(ret, strip_apost(tmp)) ELSE ret)

\* A plausible slip: the buffer left at end of line emitted unchecked.
tokenize_unchecked_tail(l) ==
    LET s == tokenize_loop(l, 1, <<>>, <<>>)
    IN  IF Len(s.tmp) > 0 THEN Append(s.ret, strip_apost(s.tmp)) ELSE s.ret

tokenize(l) ==
    LET s == tokenize_loop(l, 1, <<>>, <<>>)
    IN  IF check_token(s.tmp) THEN Append(s.ret, strip_apost(s.tmp)) ELSE s.ret

(***************************************************************************)
(* main.rs: check_token, tokenize                                          *)
(***************************************************************************)
main_check_token(token) ==
    IF Len(token) = 0 THEN FALSE
    ELSE \E i \in 1..Len(token) : is_ascii_alphanumeric(token[i])

RECURSIVE main_tokenize_loop(_, _, _, _)
main_tokenize_loop(l, i, tmp, ret) ==
    IF i > Len(l) THEN [tmp |-> tmp, ret |-> ret]
    ELSE LET c == l[i]
         IN  IF is_ascii_alphabetic(c) \/ c = "-" \/ c = "'"
             THEN IF c = "-" \/ c = "'"
                  THEN main_tokenize_loop(l, i + 1, Append(tmp, c), ret)
                  ELSE main_tokenize_loop(l, i + 1, Append(tmp, to_ascii_lowercase(c)), ret)
             ELSE main_tokenize_loop(l, i + 1, <<>>,
                      IF main_check_token(tmp) THEN Append(ret, tmp) ELSE ret)

main_tokenize(l) ==
    LET s == main_tokenize_loop(l, 1, <<>>, <<>>)
    IN  IF Len(s.tmp) > 0 THEN Append(s.ret, s.tmp) ELSE s.ret

(***************************************************************************)
(* The tokenizer functions applied to a line                               *)
(***************************************************************************)
\* While another entry point runs, the rest of the state is at rest.
TokIdle ==
    /\ line = <<>>
    /\ tok_op = "idle"
    /\ tok_ret = <<>>

GwIdle ==
    /\ fbytes = <<>>
    /\ gw_done = TRUE
    /\ gw_ret = <<>>

RkIdle ==
    /\ word_list = <<>>
    /\ words = <<>>
    /\ top = 0
    /\ debug = FALSE
    /\ rk_op = "idle"
    /\ query = <<>>
    /\ matches = <<>>
    /\ printed = <<>>
    /\ panicked = FALSE

CfIdle ==
    /\ files = <<>>
    /\ fs = <<>>
    /\ wset = {}
    /\ ign_list = {}
    /\ variant = "util"
    /\ fidx = 1
    /\ stdout = <<>>
    /\ stderr = <<>>

IgIdle ==
    /\ to_ign = [some |-> FALSE]
    /\ ign_file = [opens |-> FALSE]
    /\ ig_done = TRUE
    /\ ig_ret = <<>>

TokInit ==
    /\ line \in SeqsUpTo(LineChars, MaxLine)
    /\ tok_op = "none"
    /\ tok_ret = <<>>
    /\ GwIdle
    /\ RkIdle
    /\ CfIdle
    /\ IgIdle

Tokenize ==
    /\ tok_op = "none"
    /\ tok_ret' = tokenize(line)
    /\ tok_op' = "tokenize"
    /\ UNCHANGED <<line, gw_vars, rk_vars, cf_vars, ig_vars>>

MainTokenize ==
    /\ tok_op = "none"
    /\ tok_ret' = main_tokenize(line)
    /\ tok_op' = "main_tokenize"
    /\ UNCHANGED <<line, gw_vars, rk_vars, cf_vars, ig_vars>>

StripApost ==
    /\ tok_op = "none"
    /\ tok_ret' = strip_apost(line)
    /\ tok_op' = "strip_apost"
    /\ UNCHANGED <<line, gw_vars, rk_vars, cf_vars, ig_vars>>

TokNext == Tokenize \/ MainTokenize \/ StripApost

SpecTok == TokInit /\ [][TokNext]_vars

(***************************************************************************)
(* Tokenizer properties                                                    *)
(***************************************************************************)
TokenChar(c) == is_ascii_alphanumeric(c) \/ c = "-" \/ c = "'"

\* First positions of the maximal runs of token characters of l.
RunStarts(l) ==
    {i \in 1..Len(l) : TokenChar(l[i]) /\ (i = 1 \/ ~TokenChar(l[i - 1]))}

\* Last position of the maximal run that starts at i.
RunEnd(l, i) ==
    CHOOSE j \in i..Len(l) :
        /\ \A k \in i..j : TokenChar(l[k])
        /\ (j = Len(l) \/ ~TokenChar(l[j + 1]))

ValidRunStarts(l) ==
    {i \in RunStarts(l) : \E k \in i..RunEnd(l, i) : is_ascii_alphabetic(l[k])}

NthOf(S, n) == CHOOSE i \in S : Cardinality({j \in S : j < i}) = n - 1

Lowered(s) == [k \in 1..Len(s) |-> to_ascii_lowercase(s[k])]

ExpectedTokens(l) ==
    [n \in 1..Cardinality(ValidRunStarts(l)) |->
        LET i == NthOf(ValidRunStarts(l), n)
        IN  strip_apost(Lowered(SubSeq(l, i, RunEnd(l, i))))]

\* C1: util.rs tokenize returns, left to right, one token per maximal run of
\* [A-Za-z0-9'-] that holds an ASCII letter: the run lower-cased and with its
\* trailing marker stripped; every other character is a boundary.
C1_TokenizeRuns ==
    tok_op = "tokenize" => tok_ret = ExpectedTokens(line)

C1_Witness ==
    /\ tok_op = "tokenize"
    /\ Len(tok_ret) = 2
    /\ \E i \in 1..Len(line) : line[i] \in Range(UpperSeq)
    /\ \E i \in 1..Len(line) : line[i] = "-"

\* The single-rule reading of strip_apost: 's, else a trailing apostrophe,
\* else nothing, and no second look at the result.
OneRuleStrip(word) ==
    IF ends_with(word, <<"'", "s">>) THEN SubSeq(word, 1, Len(word) - 2)
    ELSE IF ends_with(word, <<"'">>) THEN SubSeq(word, 1, Len(word) - 1)
    ELSE word

\* C2 (as stated): strip_apost applies exactly one stripping rule and never
\* re-checks the result, so at most two characters are removed.
C2_OneRuleOnly ==
    tok_op = "strip_apost" => tok_ret = OneRuleStrip(line)

Removed == Len(line) - Len(tok_ret)

\* C2 (amended): strip_apost removes a trailing 's and then, if what is left
\* ends with an apostrophe, that apostrophe too (three characters at most);
\* a word that does not end with 's loses one trailing apostrophe; any other
\* word is returned unchanged. What is returned is always a prefix of the word.
C2_StripRules ==
    tok_op = "strip_apost" =>
        /\ Removed \in 0..Len(line)
        /\ tok_ret = SubSeq(line, 1, Len(line) - Removed)
        /\ Removed =
             IF ends_with(line, <<"'", "s">>)
             THEN (IF Len(line) >= 3 /\ line[Len(line) - 2] = "'" THEN 3 ELSE 2)
             ELSE IF ends_with(line, <<"'">>) THEN 1
             ELSE 0

C2_Witness ==
    /\ tok_op = "strip_apost"
    /\ Removed = 3

\* C3: every token util.rs tokenize emits is non-empty and holds at least one
\* ASCII letter, also after the trailing marker has been stripped.
C3_TokensAlphabetic ==
    tok_op = "tokenize" =>
        \A n \in 1..Len(tok_ret) :
            /\ Len(tok_ret[n]) > 0
            /\ \E k \in 1..Len(tok_ret[n]) : is_ascii_alphabetic(tok_ret[n][k])

\* C4: in both variants the buffer left at end of line goes through the
\* validity check of a boundary: tokenize(line) = tokenize(line + " ").
C4_TailAsBoundary ==
    /\ tok_op = "tokenize" => tok_ret = tokenize(Append(line, " "))
    /\ tok_op = "main_tokenize" => tok_ret = main_tokenize(Append(line, " "))

(***************************************************************************)
(* Dictionary loader: get_words (util.rs and main.rs carry the same body)   *)
(***************************************************************************)
\* Bytes are integers 0..255; a decoded String is a sequence of code points.
NL == 10

REPLACEMENT_CHARACTER == 65533

\* The bytes dictionaries are drawn from: newline, 'a', the two bytes of
\* U+00E9 (0xC3 0xA9) and 0xFF, which is valid nowhere in UTF-8.
DictBytes == {10, 97, 195, 169, 255}

is_continuation(b) == b >= 128 /\ b <= 191

\* String::from_utf8_lossy for bytes below 0xE0 or above 0xF4: ASCII is kept,
\* a two-byte sequence gives its code point, and every byte that is not part
\* of a well-formed sequence gives U+FFFD.
RECURSIVE from_utf8_lossy(_)
from_utf8_lossy(buf) ==
    IF Len(buf) = 0 THEN <<>>
    ELSE LET b == buf[1]
         IN  IF b < 128 THEN <<b>> \o from_utf8_lossy(Tail(buf))
             ELSE IF b >= 194 /\ b <= 223 /\ Len(buf) >= 2 /\ is_continuation(buf[2])
             THEN <<(b - 192) * 64 + (buf[2] - 128)>> \o from_utf8_lossy(Tail(Tail(buf)))
             ELSE <<REPLACEMENT_CHARACTER>> \o from_utf8_lossy(Tail(buf))

\* The for loop of get_words: the state after the bytes i..Len(bytes).
RECURSIVE get_words_loop(_, _, _, _)
get_words_loop(bytes, i, buf, ret) ==
    IF i > Len(bytes) THEN [buf |-> buf, ret |-> ret]
    ELSE IF bytes[i] = NL
         THEN get_words_loop(bytes, i + 1, <<>>, Append(ret, from_utf8_lossy(buf)))
         ELSE get_words_loop(bytes, i + 1, Append(buf, bytes[i]), ret)

\* A plausible slip: the fragment after the last newline forgotten.
get_words_no_tail(bytes) == get_words_loop(bytes, 1, <<>>, <<>>).ret

get_words(bytes) ==
    LET s == get_words_loop(bytes, 1, <<>>, <<>>)
    IN  IF Len(s.buf) > 0 THEN Append(s.ret, from_utf8_lossy(s.buf)) ELSE s.ret

GwInit ==
    /\ fbytes \in SeqsUpTo(DictBytes, MaxBytes)
    /\ gw_done = FALSE
    /\ gw_ret = <<>>
    /\ TokIdle
    /\ RkIdle
    /\ CfIdle
    /\ IgIdle

GetWords ==
    /\ ~gw_done
    /\ gw_ret' = get_words(fbytes)
    /\ gw_done' = TRUE
    /\ UNCHANGED <<fbytes, tok_vars, rk_vars, cf_vars, ig_vars>>

GwNext == GetWords

SpecWords == GwInit /\ [][GwNext]_vars

\* Positions of the newline bytes.
Newlines(bytes) == {i \in 1..Len(bytes) : bytes[i] = NL}

\* Position of the newline before position i (0 when there is none).
PrevNewline(bytes, i) ==
    IF \E j \in Newlines(bytes) : j < i
    THEN CHOOSE j \in Newlines(bytes) :
             j < i /\ \A k \in Newlines(bytes) : k < i => k <= j
    ELSE 0

\* C5: get_words returns the newline-delimited fields in order: one entry per
\* newline byte (empty for a blank line) plus one for a non-empty fragment
\* after the last newline; a final newline adds nothing; empty input gives an
\* empty list.
C5_GetWordsFields ==
    gw_done =>
        LET nls == Newlines(fbytes)
            n == Cardinality(nls)
            last == PrevNewline(fbytes, Len(fbytes) + 1)
            tail == last < Len(fbytes)
        IN  /\ Len(gw_ret) = n + (IF tail THEN 1 ELSE 0)
            /\ \A k \in 1..n :
                   LET e == NthOf(nls, k)
                   IN  gw_ret[k] = from_utf8_lossy(SubSeq(fbytes, PrevNewline(fbytes, e) + 1, e - 1))
            /\ tail => gw_ret[n + 1] = from_utf8_lossy(SubSeq(fbytes, last + 1, Len(fbytes)))
            /\ (fbytes = <<>> => gw_ret = <<>>)

C5_Witness ==
    /\ gw_done
    /\ Len(fbytes) > 0 /\ fbytes[Len(fbytes)] # NL
    /\ Len(gw_ret) >= 2
    /\ \E k \in 1..Len(gw_ret) : gw_ret[k] = <<>>

(***************************************************************************)
(* Similarity engine: SequenceMatcher::ratio of the difflib crate           *)
(***************************************************************************)
\* The matches a[i..i+k) = b[j..j+k) inside a[alo..ahi) x b[blo..bhi)
\* (positions are 1-based here, the upper ends exclusive).
CommonBlocks(a, alo, ahi, b, blo, bhi) ==
    {<<i, j, k>> \in (alo..ahi) \X (blo..bhi) \X (0..(ahi - alo)) :
        /\ i + k <= ahi
        /\ j + k <= bhi
        /\ \A d \in 0..(k - 1) : a[i + d] = b[j + d]}

\* The longest common block; among the longest the leftmost in a, then the
\* leftmost in b.
find_longest_match(a, alo, ahi, b, blo, bhi) ==
    LET blocks == CommonBlocks(a, alo, ahi, b, blo, bhi)
    IN  CHOOSE m \in blocks :
            \A o \in blocks :
                \/ o[3] < m[3]
                \/ o[3] = m[3] /\ o[1] > m[1]
                \/ o[3] = m[3] /\ o[1] = m[1] /\ o[2] >= m[2]

\* The summed size of the matching blocks: the longest block, then the same
\* search on what lies before it and on what lies after it.
RECURSIVE matched_size(_, _, _, _, _, _)
matched_size(a, alo, ahi, b, blo, bhi) ==
    IF alo >= ahi \/ blo >= bhi THEN 0
    ELSE LET m == find_longest_match(a, alo, ahi, b, blo, bhi)
         IN  IF m[3] = 0 THEN 0
             ELSE matched_size(a, alo, m[1], b, blo, m[2])
                  + m[3]
                  + matched_size(a, m[1] + m[3], ahi, b, m[2] + m[3], bhi)

RECURSIVE GCD(_, _)
GCD(x, y) == IF y = 0 THEN x ELSE GCD(y, x % y)

\* A ratio is kept as the fraction <<numerator, denominator>> in lowest terms;
\* for words of these lengths two fractions are the same f32 exactly when they
\* are the same fraction.
Fraction(n, d) == LET g == GCD(n, d) IN <<n \div g, d \div g>>

One == <<1, 1>>

ratio(a, b) ==
    LET length == Len(a) + Len(b)
    IN  IF length # 0
        THEN Fraction(2 * matched_size(a, 1, Len(a) + 1, b, 1, Len(b) + 1), length)
        ELSE One

\* f32 comparison of two ratios.
Less(r1, r2) == r1[1] * r2[2] < r2[1] * r1[2]

(***************************************************************************)
(* Ranker: find_word (util.rs and main.rs carry the same body)              *)
(***************************************************************************)
Panic == "panic"

\* slice::sort_by with the comparator b.0.partial_cmp(&a.0): a stable sort,
\* larger ratios first. Each element goes behind every element already placed
\* that does not compare after it.
RECURSIVE sort_by_ratio_desc(_)
sort_by_ratio_desc(v) ==
    IF Len(v) = 0 THEN <<>>
    ELSE LET init == sort_by_ratio_desc(SubSeq(v, 1, Len(v) - 1))
             x == v[Len(v)]
             keep == {i \in 1..Len(init) : ~Less(init[i].ratio, x.ratio)}
             n == Cardinality(keep)
         IN  SubSeq(init, 1, n) \o <<x>> \o SubSeq(init, n + 1, Len(init))

\* A plausible slip: the comparator's operands the other way round.
RECURSIVE sort_by_ratio_asc(_)
sort_by_ratio_asc(v) ==
    IF Len(v) = 0 THEN <<>>
    ELSE LET init == sort_by_ratio_asc(SubSeq(v, 1, Len(v) - 1))
             x == v[Len(v)]
             keep == {i \in 1..Len(init) : ~Less(x.ratio, init[i].ratio)}
             n == Cardinality(keep)
         IN  SubSeq(init, 1, n) \o <<x>> \o SubSeq(init, n + 1, Len(init))

find_word_ascending(w, wl) ==
    IF Len(wl) = 0 THEN Panic
    ELSE sort_by_ratio_asc([i \in 1..Len(wl) |-> [ratio |-> ratio(w, wl[i]), word |-> wl[i]]])

\* A plausible slip: sort_unstable_by, here one that puts an element in front
\* of those already placed that compare equal to it.
RECURSIVE sort_by_ratio_desc_unstable(_)
sort_by_ratio_desc_unstable(v) ==
    IF Len(v) = 0 THEN <<>>
    ELSE LET init == sort_by_ratio_desc_unstable(SubSeq(v, 1, Len(v) - 1))
             x == v[Len(v)]
             keep == {i \in 1..Len(init) : Less(x.ratio, init[i].ratio)}
             n == Cardinality(keep)
         IN  SubSeq(init, 1, n) \o <<x>> \o SubSeq(init, n + 1, Len(init))

find_word_unstable(w, wl) ==
    IF Len(wl) = 0 THEN Panic
    ELSE sort_by_ratio_desc_unstable([i \in 1..Len(wl) |-> [ratio |-> ratio(w, wl[i]), word |-> wl[i]]])

find_word(w, wl) ==
    IF Len(wl) = 0 THEN Panic
    ELSE sort_by_ratio_desc([i \in 1..Len(wl) |-> [ratio |-> ratio(w, wl[i]), word |-> wl[i]]])

(***************************************************************************)
(* util.rs: spell_check_words                                              *)
(***************************************************************************)
\* What println! writes for a candidate: the word, and the ratio behind it
\* when debug is set.
Suggestion(m, dbg) ==
    IF dbg THEN [word |-> m.word, ratio |-> m.ratio] ELSE [word |-> m.word]

\* println!("\n-----\n") between two queries.
Separator == [separator |-> "-----"]

\* for j in 0..topn: the run from index j (0-based) on. Indexing matches
\* beyond its length panics.
RECURSIVE display_loop(_, _, _, _, _)
display_loop(ms, j, topn, dbg, out) ==
    IF j >= topn THEN [printed |-> out, panicked |-> FALSE]
    ELSE IF j >= Len(ms) THEN [printed |-> out, panicked |-> TRUE]
    ELSE LET m == ms[j + 1]
             out2 == Append(out, Suggestion(m, dbg))
         IN  IF m.ratio = One
             THEN [printed |-> out2, panicked |-> FALSE]
             ELSE display_loop(ms, j + 1, topn, dbg, out2)

\* for (i, word) in word_list.iter().enumerate(): the run from the i-th query
\* (1-based) on; ms is what find_word returned last.
RECURSIVE spell_check_loop(_, _, _, _, _, _, _)
spell_check_loop(wl, ws, topn, dbg, i, ms, out) ==
    IF i > Len(wl) THEN [printed |-> out, panicked |-> FALSE, matches |-> ms]
    ELSE LET found == find_word(wl[i], ws)
         IN  IF found = Panic
             THEN [printed |-> out, panicked |-> TRUE, matches |-> found]
             ELSE LET d == display_loop(found, 0, topn, dbg, out)
                  IN  IF d.panicked
                      THEN [printed |-> d.printed, panicked |-> TRUE, matches |-> found]
                      ELSE spell_check_loop(wl, ws, topn, dbg, i + 1, found,
                               IF i # Len(wl) THEN Append(d.printed, Separator)
                               ELSE d.printed)

\* A plausible slip: the break on an exact match left out.
RECURSIVE display_loop_no_break(_, _, _, _, _)
display_loop_no_break(ms, j, topn, dbg, out) ==
    IF j >= topn THEN [printed |-> out, panicked |-> FALSE]
    ELSE IF j >= Len(ms) THEN [printed |-> out, panicked |-> TRUE]
    ELSE display_loop_no_break(ms, j + 1, topn, dbg, Append(out, Suggestion(ms[j + 1], dbg)))

spell_check_words(wl, ws, t, dbg) ==
    LET topn == IF Len(ws) < t THEN Len(ws) ELSE t
    IN  spell_check_loop(wl, ws, topn, dbg, 1, <<>>, <<>>)

(***************************************************************************)
(* main.rs: the word branch of main                                        *)
(***************************************************************************)
\* for i in 0..args.top: the run from index i (0-based) on.
RECURSIVE main_display_loop(_, _, _, _)
main_display_loop(ms, i, t, out) ==
    IF i >= t THEN [printed |-> out, panicked |-> FALSE]
    ELSE IF i >= Len(ms) THEN [printed |-> out, panicked |-> TRUE]
    ELSE LET m == ms[i + 1]
             out2 == Append(out, [word |-> m.word])
         IN  IF m.ratio = One
             THEN [printed |-> out2, panicked |-> FALSE]
             ELSE main_display_loop(ms, i + 1, t, out2)

\* A plausible slip: the break on an exact match left out.
main_word_branch_no_break(wl, ws, t) ==
    IF Len(wl) = 0 THEN [printed |-> <<>>, panicked |-> TRUE, matches |-> <<>>]
    ELSE LET found == find_word(wl[1], ws)
         IN  IF found = Panic
             THEN [printed |-> <<>>, panicked |-> TRUE, matches |-> found]
             ELSE LET d == display_loop_no_break(found, 0, t, FALSE, <<>>)
                  IN  [printed |-> d.printed, panicked |-> d.panicked, matches |-> found]

\* args.word[0] panics without a positional argument, find_word on an empty
\* dictionary.
main_word_branch(wl, ws, t) ==
    IF Len(wl) = 0 THEN [printed |-> <<>>, panicked |-> TRUE, matches |-> <<>>]
    ELSE LET found == find_word(wl[1], ws)
         IN  IF found = Panic
             THEN [printed |-> <<>>, panicked |-> TRUE, matches |-> found]
             ELSE LET d == main_display_loop(found, 0, t, <<>>)
                  IN  [printed |-> d.printed, panicked |-> d.panicked, matches |-> found]

(***************************************************************************)
(* The ranker's entry points applied to a query list and a dictionary      *)
(***************************************************************************)
\* The words queries and dictionaries are drawn from: a word and two that tie
\* against it (ratio 2/3) and are 1/2 apart from each other.
Words == {<<"a">>, <<"a", "b">>, <<"b", "a">>}

RkInit ==
    /\ word_list \in SeqsUpTo(Words, MaxQueries)
    /\ words \in SeqsUpTo(Words, MaxDict)
    /\ top \in 0..MaxTop
    /\ debug \in BOOLEAN
    /\ rk_op = "none"
    /\ query = <<>>
    /\ matches = <<>>
    /\ printed = <<>>
    /\ panicked = FALSE
    /\ TokIdle
    /\ GwIdle
    /\ CfIdle
    /\ IgIdle

FindWord ==
    /\ rk_op = "none"
    /\ \E w \in Range(word_list) :
           /\ query' = w
           /\ matches' = find_word(w, words)
           /\ panicked' = (find_word(w, words) = Panic)
    /\ rk_op' = "find_word"
    /\ UNCHANGED <<rk_in, printed, tok_vars, gw_vars, cf_vars, ig_vars>>

SpellCheckWords ==
    /\ rk_op = "none"
    /\ LET r == spell_check_words(word_list, words, top, debug)
       IN  /\ printed' = r.printed
           /\ panicked' = r.panicked
           /\ matches' = r.matches
    /\ rk_op' = "spell_check_words"
    /\ UNCHANGED <<rk_in, query, tok_vars, gw_vars, cf_vars, ig_vars>>

MainWord ==
    /\ rk_op = "none"
    /\ LET r == main_word_branch(word_list, words, top)
       IN  /\ printed' = r.printed
           /\ panicked' = r.panicked
           /\ matches' = r.matches
    /\ rk_op' = "main"
    /\ UNCHANGED <<rk_in, query, tok_vars, gw_vars, cf_vars, ig_vars>>

RkNext == FindWord \/ SpellCheckWords \/ MainWord

SpecRank == RkInit /\ [][RkNext]_vars

(***************************************************************************)
(* Ranker properties                                                       *)
(***************************************************************************)
Count(v, x) == Cardinality({i \in 1..Len(v) : v[i] = x})

MatchWords(ms) == [i \in 1..Len(ms) |-> ms[i].word]

\* ms ranks the dictionary ws against q: one pair per entry, each word as often
\* as the dictionary holds it, each with its ratio against q, larger ratios
\* first.
Ranked(q, ws, ms) ==
    /\ Len(ms) = Len(ws)
    /\ \A w \in Range(ws) \cup Range(MatchWords(ms)) :
           Count(MatchWords(ms), w) = Count(ws, w)
    /\ \A i \in 1..Len(ms) : ms[i].ratio = ratio(q, ms[i].word)
    /\ \A i \in 1..Len(ms) : \A j \in i..Len(ms) : ~Less(ms[i].ratio, ms[j].ratio)

\* C6: for every query and every non-empty dictionary find_word returns one
\* (ratio, word) pair per dictionary entry, a permutation of the dictionary
\* with each word's ratio against the query, the ratios non-increasing.
C6_FindWordRanks ==
    /\ (rk_op = "find_word" /\ Len(words) > 0) => Ranked(query, words, matches)
    /\ (rk_op = "main" /\ Len(words) > 0 /\ Len(word_list) > 0) =>
           Ranked(word_list[1], words, matches)

C6_Witness ==
    /\ rk_op = "find_word"
    /\ Len(words) >= 3
    /\ \E i \in 1..Len(words) : \E j \in 1..Len(words) : i # j /\ words[i] = words[j]
    /\ MatchWords(matches) # words
    /\ Less(matches[Len(matches)].ratio, matches[1].ratio)

\* The positions of the separators in the output, and the suggestions printed
\* for the i-th query: what lies between separator i-1 and separator i.
SeparatorsAt(out) == {k \in 1..Len(out) : out[k] = Separator}

BlockOf(out, i) ==
    LET seps == SeparatorsAt(out)
        from == IF i = 1 THEN 1 ELSE NthOf(seps, i - 1) + 1
        to == IF i > Cardinality(seps) THEN Len(out) ELSE NthOf(seps, i) - 1
    IN  SubSeq(out, from, to)

\* C7: when the dictionary holds the query word and top >= 1, find_word puts
\* that word first with ratio 1.0 and the display loop prints that one
\* suggestion and nothing after it, in spell_check_words and in main.
C7_ExactMatchStops ==
    /\ (rk_op = "find_word" /\ query \in Range(words)) =>
           /\ matches[1].word = query
           /\ matches[1].ratio = One
    /\ (rk_op = "main" /\ top >= 1 /\ Len(word_list) > 0 /\ word_list[1] \in Range(words)) =>
           /\ ~panicked
           /\ printed = <<[word |-> word_list[1]]>>
    /\ (rk_op = "spell_check_words" /\ top >= 1) =>
           \A i \in 1..Len(word_list) :
               word_list[i] \in Range(words) =>
                   /\ Cardinality(SeparatorsAt(printed)) >= i - 1
                   /\ Len(BlockOf(printed, i)) = 1
                   /\ BlockOf(printed, i)[1].word = word_list[i]
                   /\ debug => BlockOf(printed, i)[1].ratio = One

C7_Witness ==
    /\ rk_op = "main"
    /\ top >= 2
    /\ Len(words) >= 2
    /\ Len(word_list) > 0
    /\ Len(word_list[1]) > 0
    /\ word_list[1] \in Range(words)
    /\ words[1] # word_list[1]
    /\ printed = <<[word |-> word_list[1]]>>

NoExactMatch(q, ws) == \A k \in 1..Len(ws) : ratio(q, ws[k]) # One

\* C8: with top greater than the size of a non-empty dictionary the display
\* loop is clamped to the dictionary: it never indexes the ranked list out of
\* bounds, and without an exact match it prints len(dictionary) candidates;
\* in spell_check_words and in main.
C8_TopClamped ==
    /\ (rk_op = "spell_check_words" /\ Len(words) > 0 /\ top > Len(words)) =>
           /\ ~panicked
           /\ \A i \in 1..Len(word_list) :
                  NoExactMatch(word_list[i], words) =>
                      Len(BlockOf(printed, i)) = Len(words)
    /\ (rk_op = "main" /\ Len(words) > 0 /\ top > Len(words) /\ Len(word_list) > 0) =>
           /\ ~panicked
           /\ NoExactMatch(word_list[1], words) => Len(printed) = Len(words)

\* The place of the i-th dictionary entry in a stable descending ranking, rs
\* being the entries' ratios: behind every entry with a larger ratio and every
\* earlier entry with the same ratio.
StablePlace(rs, i) ==
    1 + Cardinality({j \in 1..Len(rs) :
            \/ Less(rs[i], rs[j])
            \/ rs[j] = rs[i] /\ j < i})

StablyRanked(q, ws, ms) ==
    LET rs == [i \in 1..Len(ws) |-> ratio(q, ws[i])]
    IN  /\ Len(ms) = Len(ws)
        /\ \A i \in 1..Len(ws) :
               ms[StablePlace(rs, i)] = [ratio |-> rs[i], word |-> ws[i]]

\* C12: in find_word's result candidates of equal ratio keep the order they
\* have in the dictionary (the descending sort is stable), so the ranking is
\* determined by the query and the dictionary order.
C12_StableTies ==
    /\ (rk_op = "find_word" /\ Len(words) > 0) => StablyRanked(query, words, matches)
    /\ (rk_op = "main" /\ Len(words) > 0 /\ Len(word_list) > 0) =>
           StablyRanked(word_list[1], words, matches)

C12_Witness ==
    /\ rk_op = "find_word"
    /\ Len(words) >= 3
    /\ MatchWords(matches) # words
    /\ \E i \in 1..Len(matches) : \E j \in (i + 1)..Len(matches) :
           /\ matches[i].ratio = matches[j].ratio
           /\ matches[i].word # matches[j].word

(***************************************************************************)
(* Membership checker: check_file and check_files                          *)
(***************************************************************************)
\* What a Lines reader yields for one line: its text, or an error when the
\* line is not valid UTF-8.
Ok(text) == [ok |-> TRUE, text |-> text]

Err == [ok |-> FALSE]

\* read_lines fails on a path the file system has no readable file for.
NoFile == [opens |-> FALSE]

\* A file read_lines opens, with the lines its reader yields.
File(reader) == [opens |-> TRUE, reader |-> reader]

\* println!("{}:{} \"{}\"", fname.display(), lcount, word)
Report(fname, lcount, w) == [file |-> fname, line |-> lcount, word |-> w]

\* for word in &tokens: the reports of the tokens t..Len(tokens).
RECURSIVE report_tokens(_, _, _, _, _, _, _)
report_tokens(fname, lcount, tokens, t, ws, ign, out) ==
    IF t > Len(tokens) THEN out
    ELSE report_tokens(fname, lcount, tokens, t + 1, ws, ign,
             IF tokens[t] \notin ws /\ tokens[t] \notin ign
             THEN Append(out, Report(fname, lcount, tokens[t]))
             ELSE out)

\* for line in reader, in util.rs: the run from the k-th line on.
RECURSIVE check_file_loop(_, _, _, _, _, _, _)
check_file_loop(fname, reader, k, lcount, ws, ign, out) ==
    IF k > Len(reader) THEN out
    ELSE check_file_loop(fname, reader, k + 1, lcount + 1, ws, ign,
             IF reader[k].ok
             THEN report_tokens(fname, lcount, tokenize(reader[k].text), 1, ws, ign, out)
             ELSE out)

\* A plausible slip: lcount += 1 moved inside the if let Ok(l).
RECURSIVE check_file_loop_ok_count(_, _, _, _, _, _, _)
check_file_loop_ok_count(fname, reader, k, lcount, ws, ign, out) ==
    IF k > Len(reader) THEN out
    ELSE IF reader[k].ok
         THEN check_file_loop_ok_count(fname, reader, k + 1, lcount + 1, ws, ign,
                  report_tokens(fname, lcount, tokenize(reader[k].text), 1, ws, ign, out))
         ELSE check_file_loop_ok_count(fname, reader, k + 1, lcount, ws, ign, out)

check_file_ok_count(fname, reader, ws, ign) ==
    check_file_loop_ok_count(fname, reader, 1, 1, ws, ign, <<>>)

check_file(fname, reader, ws, ign) ==
    check_file_loop(fname, reader, 1, 1, ws, ign, <<>>)

\* for line in reader, in main.rs: the same loop over main.rs' tokenize.
RECURSIVE main_check_file_loop(_, _, _, _, _, _, _)
main_check_file_loop(fname, reader, k, lcount, ws, ign, out) ==
    IF k > Len(reader) THEN out
    ELSE main_check_file_loop(fname, reader, k + 1, lcount + 1, ws, ign,
             IF reader[k].ok
             THEN report_tokens(fname, lcount, main_tokenize(reader[k].text), 1, ws, ign, out)
             ELSE out)

main_check_file(fname, reader, ws, ign) ==
    main_check_file_loop(fname, reader, 1, 1, ws, ign, <<>>)

\* The lines files are made of: a text the two tokenizers split into three
\* tokens (b's stays whole in main.rs, util.rs strips it to b), and a line
\* that fails to decode.
FileLines ==
    {Ok(<<"A", " ", "b", "'", "s", ":", "c">>), Err}

Paths == {"x", "y"}

CfInit ==
    /\ files \in SeqsUpTo(Paths, MaxFiles)
    /\ fs \in [Paths -> {NoFile} \cup {File(r) : r \in SeqsUpTo(FileLines, MaxLines)}]
    /\ wset \in {{<<"a">>}, {<<"a">>, <<"c">>}}
    /\ ign_list \in {{}, {<<"b">>}}
    /\ variant \in {"util", "main"}
    /\ fidx = 1
    /\ stdout = <<>>
    /\ stderr = <<>>
    /\ TokIdle
    /\ GwIdle
    /\ RkIdle
    /\ IgIdle

\* A plausible slip: break where the loop has continue.
OpenFailsBreak ==
    /\ fidx <= Len(files)
    /\ ~fs[files[fidx]].opens
    /\ stderr' = Append(stderr, files[fidx])
    /\ fidx' = Len(files) + 1
    /\ UNCHANGED <<cf_in, stdout, tok_vars, gw_vars, rk_vars, ig_vars>>

\* One turn of check_files' loop on a path read_lines cannot open: the
\* warning, then continue.
OpenFails ==
    /\ fidx <= Len(files)
    /\ ~fs[files[fidx]].opens
    /\ stderr' = Append(stderr, files[fidx])
    /\ fidx' = fidx + 1
    /\ UNCHANGED <<cf_in, stdout, tok_vars, gw_vars, rk_vars, ig_vars>>

\* One turn of util.rs check_files' loop on a file that opens.
CheckFile ==
    /\ variant = "util"
    /\ fidx <= Len(files)
    /\ fs[files[fidx]].opens
    /\ stdout' = stdout \o check_file(files[fidx], fs[files[fidx]].reader, wset, ign_list)
    /\ fidx' = fidx + 1
    /\ UNCHANGED <<cf_in, stderr, tok_vars, gw_vars, rk_vars, ig_vars>>

\* One turn of main.rs check_files' loop on a file that opens.
MainCheckFile ==
    /\ variant = "main"
    /\ fidx <= Len(files)
    /\ fs[files[fidx]].opens
    /\ stdout' = stdout \o main_check_file(files[fidx], fs[files[fidx]].reader, wset, ign_list)
    /\ fidx' = fidx + 1
    /\ UNCHANGED <<cf_in, stderr, tok_vars, gw_vars, rk_vars, ig_vars>>

CfNext == OpenFails \/ CheckFile \/ MainCheckFile

SpecFiles == CfInit /\ [][CfNext]_vars

(***************************************************************************)
(* Membership checker properties                                           *)
(***************************************************************************)
\* The tokens of a line, by the tokenizer of the variant that runs.
TokensOf(text) == IF variant = "util" THEN tokenize(text) ELSE main_tokenize(text)

\* The (line number, token index) pairs of a file that are to be reported:
\* tokens of decoded lines that neither set holds; line numbers count every
\* line of the file from 1.
Reportable(reader) ==
    UNION {{<<n, t>> : t \in {u \in 1..Len(TokensOf(reader[n].text)) :
                                  /\ TokensOf(reader[n].text)[u] \notin wset
                                  /\ TokensOf(reader[n].text)[u] \notin ign_list}} :
           n \in {m \in 1..Len(reader) : reader[m].ok}}

Before(p, q) == p[1] < q[1] \/ (p[1] = q[1] /\ p[2] < q[2])

ExpectedReports(fname, reader) ==
    LET pos == Reportable(reader)
    IN  [k \in 1..Cardinality(pos) |->
            LET p == CHOOSE p \in pos : Cardinality({q \in pos : Before(q, p)}) = k - 1
            IN  Report(fname, p[1], TokensOf(reader[p[1]].text)[p[2]])]

\* C9: check_file reports (file, n, token), in file order and once per
\* occurrence, for exactly the tokens of each decoded line that are in neither
\* the word set nor the ignore set; n is the 1-based position of the line,
\* counting the lines that failed to decode, which report nothing.
C9_CheckFileReports ==
    [][(fidx <= Len(files) /\ fs[files[fidx]].opens /\ fidx' = fidx + 1) =>
           stdout' = stdout \o ExpectedReports(files[fidx], fs[files[fidx]].reader)]_vars

C9_Witness ==
    \E k \in 1..Len(stdout) :
        LET r == stdout[k]
            reader == fs[r.file].reader
        IN  /\ r.line = 2
            /\ ~reader[1].ok
            /\ \E t \in 1..Len(TokensOf(reader[2].text)) :
                   TokensOf(reader[2].text)[t] \in wset \cup ign_list

\* What the files 1..n of the list are to have produced.
RECURSIVE ReportsUpTo(_)
ReportsUpTo(n) ==
    IF n = 0 THEN <<>>
    ELSE ReportsUpTo(n - 1) \o
         (IF fs[files[n]].opens
          THEN ExpectedReports(files[n], fs[files[n]].reader)
          ELSE <<>>)

RECURSIVE WarningsUpTo(_)
WarningsUpTo(n) ==
    IF n = 0 THEN <<>>
    ELSE WarningsUpTo(n - 1) \o (IF fs[files[n]].opens THEN <<>> ELSE <<files[n]>>)

\* C10: check_files takes the files one at a time in the caller's order; a
\* file that cannot be opened gives a warning and no report, and the files
\* after it are checked all the same, each numbered from line 1: once the loop
\* has passed a file, the output holds that file's reports, in list order.
C10_FilesInOrder ==
    /\ fidx \in 1..(Len(files) + 1)
    /\ stdout = ReportsUpTo(fidx - 1)
    /\ stderr = WarningsUpTo(fidx - 1)

C10_Witness ==
    /\ Len(files) >= 2
    /\ fidx = Len(files) + 1
    /\ ~fs[files[1]].opens
    /\ stderr = <<files[1]>>
    /\ Len(stdout) > 0
    /\ stdout[1].file = files[2]
    /\ stdout[1].line = 1

(***************************************************************************)
(* Ignore list: get_ignore_file_contents and get_ignore_list               *)
(***************************************************************************)
\* Option<String>
None == [some |-> FALSE]

Some(v) == [some |-> TRUE, value |-> v]

\* A path that exists but that read_lines cannot open.
Unreadable == [opens |-> FALSE, exists |-> TRUE]

path_exists(f) == f.opens \/ f = Unreadable

\* char::is_whitespace, for the white space the inputs here hold.
White == {" ", "\t"}

RECURSIVE trim_start(_)
trim_start(w) ==
    IF Len(w) > 0 /\ w[1] \in White THEN trim_start(Tail(w)) ELSE w

RECURSIVE trim_end(_)
trim_end(w) ==
    IF Len(w) > 0 /\ w[Len(w)] \in White THEN trim_end(SubSeq(w, 1, Len(w) - 1)) ELSE w

\* str::trim
trim(w) == trim_end(trim_start(w))

\* str::split: the pieces between the separators, empty pieces included; cur
\* is the piece being read, out the pieces before it.
RECURSIVE split_loop(_, _, _, _, _)
split_loop(w, sep, i, cur, out) ==
    IF i > Len(w) THEN Append(out, cur)
    ELSE IF w[i] = sep
         THEN split_loop(w, sep, i + 1, <<>>, Append(out, cur))
         ELSE split_loop(w, sep, i + 1, Append(cur, w[i]), out)

split(w, sep) == split_loop(w, sep, 1, <<>>, <<>>)

\* for line in reader: the words of the lines k..Len(reader).
RECURSIVE ignore_file_loop(_, _, _)
ignore_file_loop(reader, k, ret) ==
    IF k > Len(reader) THEN ret
    ELSE ignore_file_loop(reader, k + 1,
             IF reader[k].ok /\ Len(trim(reader[k].text)) > 0
             THEN Append(ret, trim(reader[k].text))
             ELSE ret)

\* f is what the path parse_path gives holds.
get_ignore_file_contents(f) ==
    IF ~path_exists(f) THEN <<>>
    ELSE IF ~f.opens THEN <<>>
    ELSE ignore_file_loop(f.reader, 1, <<>>)

\* for item in tmp: the items t..Len(tmp), the empty ones filtered.
RECURSIVE push_items(_, _, _)
push_items(tmp, t, ret) ==
    IF t > Len(tmp) THEN ret
    ELSE push_items(tmp, t + 1, IF Len(tmp[t]) > 0 THEN Append(ret, tmp[t]) ELSE ret)

\* A plausible slip: the filter of empty values left out.
get_ignore_list_keep_empty(ti, f) ==
    LET ret == get_ignore_file_contents(f)
    IN  IF ~ti.some THEN ret
        ELSE LET pieces == split(ti.value, ",")
             IN  ret \o [t \in 1..Len(pieces) |-> trim(pieces[t])]

get_ignore_list(ti, f) ==
    LET ret == get_ignore_file_contents(f)
    IN  IF ~ti.some THEN ret
        ELSE LET pieces == split(ti.value, ",")
                 tmp == [t \in 1..Len(pieces) |-> trim(pieces[t])]
             IN  push_items(tmp, 1, ret)

\* The characters --ignore values are drawn from, and the lines of ignore
\* files: a padded word, a blank line, a bare word, a line that fails to decode.
IgnChars == {"a", "b", " ", ","}

IgnFileLines ==
    {Ok(<<" ", "a", "\t">>), Ok(<<" ">>), Ok(<<"b">>), Err}

IgInit ==
    /\ to_ign \in {None} \cup {Some(v) : v \in SeqsUpTo(IgnChars, MaxIgnLen)}
    /\ ign_file \in {NoFile, Unreadable} \cup {File(r) : r \in SeqsUpTo(IgnFileLines, MaxLines)}
    /\ ig_done = FALSE
    /\ ig_ret = <<>>
    /\ TokIdle
    /\ GwIdle
    /\ RkIdle
    /\ CfIdle

GetIgnoreList ==
    /\ ~ig_done
    /\ ig_ret' = get_ignore_list(to_ign, ign_file)
    /\ ig_done' = TRUE
    /\ UNCHANGED <<to_ign, ign_file, tok_vars, gw_vars, rk_vars, cf_vars>>

IgNext == GetIgnoreList

SpecIgnore == IgInit /\ [][IgNext]_vars

(***************************************************************************)
(* Ignore list properties                                                  *)
(***************************************************************************)
\* w without the white space around it: from its first to its last character
\* that is not white space.
Trimmed(w) ==
    LET solid == {i \in 1..Len(w) : w[i] \notin White}
    IN  IF solid = {} THEN <<>>
        ELSE SubSeq(w, CHOOSE i \in solid : \A j \in solid : i <= j,
                       CHOOSE i \in solid : \A j \in solid : i >= j)

\* The members of v that the index set keeps, in order.
Kept(v, idx) == [n \in 1..Cardinality(idx) |-> v[NthOf(idx, n)]]

\* The words of the ignore file: its decoded non-blank lines, trimmed.
FileWords(f) ==
    IF ~f.opens THEN <<>>
    ELSE LET t == [k \in 1..Len(f.reader) |->
                      IF f.reader[k].ok THEN Trimmed(f.reader[k].text) ELSE <<>>]
         IN  Kept(t, {k \in 1..Len(t) : t[k] # <<>>})

\* The entries of a comma-separated list: what lies between the commas.
CommasOf(w) == {i \in 1..Len(w) : w[i] = ","}

Entry(w, n) ==
    LET commas == CommasOf(w)
        from == IF n = 1 THEN 1 ELSE NthOf(commas, n - 1) + 1
        to == IF n > Cardinality(commas) THEN Len(w) ELSE NthOf(commas, n) - 1
    IN  SubSeq(w, from, to)

CliWords(w) ==
    LET t == [n \in 1..(Cardinality(CommasOf(w)) + 1) |-> Trimmed(Entry(w, n))]
    IN  Kept(t, {n \in 1..Len(t) : t[n] # <<>>})

Init == TokInit \/ GwInit \/ RkInit \/ CfInit \/ IgInit

Next == TokNext \/ GwNext \/ RkNext \/ CfNext \/ IgNext

Spec == Init /\ [][Next]_vars

====
